---- MODULE Spec2Model ----
(***************************************************************************)
(* Model of the searxng client (pkg/searxng): the token-bucket rate        *)
(* limiter (rateLimiter.wait) and the retry loops of Client.Search and     *)
(* Client.SearchJSON, run by NCallers concurrent goroutines that share one *)
(* limiter.  A third specification, SpecRequest, follows one call with     *)
(* every request and backend payload of a bounded set.                     *)
(*                                                                         *)
(* Time is a global clock `now` counted in ticks of one second.  The       *)
(* limiter's capacity and refill interval are the arguments of             *)
(* newRateLimiter (10 and 100ms in NewClient, 5 and 10ms in the package's  *)
(* test); the model draws them from 1..MaxCap and 1..MaxRefillRate ticks.  *)
(* Errors are modelled as the set of markers errors.Is / the message text  *)
(* can find in the error chain; the nil error is the empty set.            *)
(***************************************************************************)
EXTENDS Integers, Sequences, FiniteSets, TLC

\* ---------------------------------------------------------------- bounds
NCallers == 2            \* concurrent goroutines using the client
MaxCap == 2              \* largest bucket capacity passed to newRateLimiter
MaxRefillRate == 2       \* longest refill interval (ticks) passed to newRateLimiter
MaxRetriesBound == 3     \* largest Config.MaxRetries
MaxTime == 7             \* under Spec the clock stops advancing here
MaxTimeLimiter == 3      \* under SpecLimiter the clock stops advancing here
MaxLimitArg == 22        \* largest SearchRequest.Limit a caller passes
MaxPageArg == 3          \* largest SearchRequest.Page a caller passes
NegArgs == 2             \* callers pass Limit and Page from -NegArgs up
MaxDateTokens == 4       \* longest published-date string, in tokens
MaxTextLen == 6          \* longest text handed to cleanMarkdown, in characters

\* ------------------------------------------------------ program constants
Second == 1              \* time.Second: the clock ticks in seconds
DefaultLimit == 5        \* req.Limit = 5
MaxLimit == 20           \* req.Limit = 20
DefaultPage == 1         \* req.Page = 1
DefaultMaxRetries == 3   \* DefaultConfig: MaxRetries: 3

Callers == 1..NCallers

\* ------------------------------------------------------------------ errors
Nil == {}
ErrRequestFailed == "search request failed"
ErrInvalidResponse == "invalid response from searxng"
ErrTimeout == "request timeout"
Canceled == "context canceled"
DeadlineExceeded == "context deadline exceeded"

\* fmt.Errorf("%w: %w", sentinel, err): the chain holds the sentinel and
\* everything err holds (err may be nil)
Wrap(sentinel, err) == {sentinel} \cup err

\* fmt.Errorf("text: %w", err)
WrapText(text, err) == {text} \cup err

\* mutant: only context.Canceled is recognised
IsContextErrorCanceledOnly(err) == Canceled \in err

\* errors.Is(lastErr, context.Canceled) || errors.Is(lastErr, context.DeadlineExceeded)
IsContextError(err) == Canceled \in err \/ DeadlineExceeded \in err

\* --------------------------------------------------- backend wire payloads
\* APIResult / APIResponse as decoded from the backend's JSON body
APIResults == {[URL |-> "u1", Title |-> "t1", Content |-> "c1", PublishedDate |-> <<>>]}

\* ----------------------------------------------------------- published dates
\* A date string is the concatenation of its tokens: a date, a clock time, a
\* zone, one of the separators, or text that belongs to no date ("x").  The
\* empty sequence is the empty string.
Dates == {"2024-01-15", "1999-12-31"}
Clocks == {"10:30:00"}
Offsets == {"+02:00"}
DateTokens == Dates \cup Clocks \cup Offsets \cup {"T", " ", "Z", "x"}
DateStrings == UNION {[1..n -> DateTokens] : n \in 0..MaxDateTokens}

\* the layouts, element by element
RFC3339 == <<"2006-01-02", "T", "15:04:05", "Z07:00">>
LayoutZ == <<"2006-01-02", "T", "15:04:05", "Z">>
LayoutSpace == <<"2006-01-02", " ", "15:04:05">>
LayoutDate == <<"2006-01-02">>

\* mutant: the date-only layout is not tried
formatsWithoutDateOnly == <<RFC3339, LayoutZ, LayoutSpace>>

\* formats := []string{time.RFC3339, "2006-01-02T15:04:05Z",
\*                     "2006-01-02 15:04:05", "2006-01-02"}
formats == <<RFC3339, LayoutZ, LayoutSpace, LayoutDate>>

\* whether a token of the value is what a layout element stands for: "Z07:00"
\* takes Z or a numeric offset, every other letter of a layout is literal
ElementMatches(e, tok) ==
    CASE e = "2006-01-02" -> tok \in Dates
      [] e = "15:04:05" -> tok \in Clocks
      [] e = "Z07:00" -> tok \in Offsets \cup {"Z"}
      [] OTHER -> tok = e

\* the time.Time a matching value denotes: its date, its clock time
\* (midnight when the layout has none) and its zone (UTC when the layout has
\* none, or for Z)
ZeroTime == [Date |-> "", Clock |-> "", Zone |-> ""]
TimeOf(str) ==
    [Date |-> str[1],
     Clock |-> IF Len(str) >= 3 THEN str[3] ELSE "00:00:00",
     Zone |-> IF Len(str) >= 4 /\ str[4] \in Offsets THEN str[4] ELSE "UTC"]

\* time.Parse(layout, value)
timeParse(layout, str) ==
    IF /\ Len(str) = Len(layout)
       /\ \A i \in 1..Len(layout) : ElementMatches(layout[i], str[i])
    THEN [ok |-> TRUE, t |-> TimeOf(str)]
    ELSE [ok |-> FALSE, t |-> ZeroTime]

\* a *time.Time: nil, or a pointer to t
NilTime == [nil |-> TRUE, t |-> ZeroTime]

\* for _, format := range formats: the first layout from index i on that
\* parses str, or nil after the last one
RECURSIVE TryFormats(_, _)
TryFormats(i, str) ==
    IF i > Len(formats) THEN NilTime
    ELSE IF timeParse(formats[i], str).ok
    THEN [nil |-> FALSE, t |-> timeParse(formats[i], str).t]
    ELSE TryFormats(i + 1, str)

\* parsePublishedDate
parsePublishedDate(dateStr) ==
    IF dateStr = <<>> THEN NilTime ELSE TryFormats(1, dateStr)

\* The slice fields of APIResponse and SearchResponse.  A Go slice is nil or
\* a sequence: a response holds each slice's elements, and in Nulls the names
\* of the slices that are nil.
SeqFields ==
    {"Results", "Answers", "Corrections", "Infoboxes", "Suggestions",
     "UnresponsiveEngines"}

\* an APIResponse whose slices are all empty, none nil
EmptyAPIResponse ==
    [Query |-> "q", NumberOfResults |-> 0, Results |-> <<>>, Answers |-> <<>>,
     Corrections |-> <<>>, Infoboxes |-> <<>>, Suggestions |-> <<>>,
     UnresponsiveEngines |-> <<>>, Nulls |-> {}]

APIResponses ==
    {EmptyAPIResponse}
    \cup {[EmptyAPIResponse EXCEPT !.Results = <<r>>] : r \in APIResults}

\* toSearchResult: field-by-field copy of one wire result, its published
\* date parsed
toSearchResult(r) ==
    [URL |-> r.URL, Title |-> r.Title, Content |-> r.Content,
     PublishedDate |-> parsePublishedDate(r.PublishedDate)]

\* mutant: the results come out in reverse order
toSearchResponseReversed(r) ==
    [Query |-> r.Query,
     NumberOfResults |-> r.NumberOfResults,
     Results |-> [i \in 1..Len(r.Results) |->
                    toSearchResult(r.Results[Len(r.Results) + 1 - i])],
     Answers |-> r.Answers,
     Corrections |-> r.Corrections,
     Infoboxes |-> r.Infoboxes,
     Suggestions |-> r.Suggestions,
     UnresponsiveEngines |-> r.UnresponsiveEngines,
     Nulls |-> r.Nulls \ {"Results"}]

\* toSearchResponse: results := make([]SearchResult, len(r.Results)), never
\* nil, with results[i] = toSearchResult(r.Results[i]); every other field is
\* copied as it is, a nil slice staying nil
toSearchResponse(r) ==
    [Query |-> r.Query,
     NumberOfResults |-> r.NumberOfResults,
     Results |-> [i \in 1..Len(r.Results) |-> toSearchResult(r.Results[i])],
     Answers |-> r.Answers,
     Corrections |-> r.Corrections,
     Infoboxes |-> r.Infoboxes,
     Suggestions |-> r.Suggestions,
     UnresponsiveEngines |-> r.UnresponsiveEngines,
     Nulls |-> r.Nulls \ {"Results"}]

NoResponse == [Query |-> "", Results |-> <<>>]    \* the nil *SearchResponse
NoAPI == [Query |-> "", Results |-> <<>>]

\* ------------------------------------------------------ search requests
\* the SearchRequest values callers pass: every Limit and Page of the range
\* without filters, and every combination of filters
EngineLists == {<<>>, <<"e1">>, <<"e1", "e2">>, <<"e2", "e1">>}
ZeroRequest ==
    [Query |-> "q", Limit |-> 0, Page |-> 0, TimeRange |-> "", Category |-> "",
     Language |-> "", Engines |-> <<>>]
Requests ==
    {[ZeroRequest EXCEPT !.Limit = l, !.Page = p] :
        l \in (-NegArgs)..MaxLimitArg, p \in (-NegArgs)..MaxPageArg}
    \cup [Query : {"", "q"}, Limit : {0}, Page : {1, 2}, TimeRange : {"", "day"},
          Category : {"", "news"}, Language : {"", "en"}, Engines : EngineLists]

\* mutant: a limit above the maximum is let through
EffectiveLimitNoCap(l) == IF l <= 0 THEN DefaultLimit ELSE l

\* if req.Limit <= 0 { req.Limit = 5 }; if req.Limit > 20 { req.Limit = 20 }
EffectiveLimit(l) ==
    LET a == IF l <= 0 THEN DefaultLimit ELSE l
    IN  IF a > MaxLimit THEN MaxLimit ELSE a

\* mutant: only a negative page is replaced
EffectivePageZeroKept(p) == IF p < 0 THEN DefaultPage ELSE p

\* if req.Page <= 0 { req.Page = 1 }
EffectivePage(p) == IF p <= 0 THEN DefaultPage ELSE p

\* "Apply defaults" at the head of Search and SearchJSON
ApplyDefaults(req) ==
    [req EXCEPT !.Limit = EffectiveLimit(@), !.Page = EffectivePage(@)]

\* strconv.Itoa, and the text of an integer in a JSON body
Itoa(n) == ToString(n)

\* What a request carries on the wire: for each field name the values sent
\* under it, in order; the empty sequence when the field is not sent.
Params == {"q", "format", "category", "language", "pageno", "time_range", "engines"}
NoParams == <<>>          \* no request built yet
NoRequest == <<>>         \* rl.wait takes no SearchRequest
IfSet(str) == IF str # "" THEN <<str>> ELSE <<>>

\* mutant: pageno is sent on every page
buildSearchURLAlwaysPageno(req) ==
    [k \in Params |->
        CASE k = "q" -> <<req.Query>>
          [] k = "format" -> <<"json">>
          [] k = "category" -> IfSet(req.Category)
          [] k = "language" -> IfSet(req.Language)
          [] k = "pageno" -> <<Itoa(req.Page)>>
          [] k = "time_range" -> IfSet(req.TimeRange)
          [] k = "engines" -> req.Engines]

\* buildSearchURL: the query parameters of the GET request
buildSearchURL(req) ==
    [k \in Params |->
        CASE k = "q" -> <<req.Query>>
          [] k = "format" -> <<"json">>
          [] k = "category" -> IfSet(req.Category)
          [] k = "language" -> IfSet(req.Language)
          [] k = "pageno" -> IF req.Page > 1 THEN <<Itoa(req.Page)>> ELSE <<>>
          [] k = "time_range" -> IfSet(req.TimeRange)
          [] k = "engines" -> req.Engines]

\* json.Marshal(APIRequest{...}): q and format are always written; the
\* omitempty fields are left out when empty (a string ""), zero (pageno) or of
\* length zero (engines)
marshalAPIRequest(req) ==
    [k \in Params |->
        CASE k = "q" -> <<req.Query>>
          [] k = "format" -> <<"json">>
          [] k = "category" -> IfSet(req.Category)
          [] k = "language" -> IfSet(req.Language)
          [] k = "pageno" -> IF req.Page # 0 THEN <<Itoa(req.Page)>> ELSE <<>>
          [] k = "time_range" -> IfSet(req.TimeRange)
          [] k = "engines" -> req.Engines]

\* the request an operation sends on each attempt
BuildRequest(op, req) ==
    IF op = "SearchJSON" THEN marshalAPIRequest(req) ELSE buildSearchURL(req)

\* ------------------------------------------------------------ configuration
\* A *Config handed to NewClient: nil, or a Config with its MaxRetries.  A
\* field the caller does not set has Go's zero value.
ConfigArgs ==
    {[nil |-> TRUE, MaxRetries |-> 0]}
    \cup {[nil |-> FALSE, MaxRetries |-> m] : m \in -1..MaxRetriesBound}

\* DefaultConfig()
DefaultConfig == [MaxRetries |-> DefaultMaxRetries]

\* the serve and search commands: &searxng.Config{BaseURL: ..., Timeout: ...}
ServeConfig == [nil |-> FALSE, MaxRetries |-> 0]

\* NewClient: if config == nil { config = DefaultConfig() }; the client keeps
\* the configuration as it is
NewClient(cfg) == IF cfg.nil THEN DefaultConfig ELSE [MaxRetries |-> cfg.MaxRetries]

\* ------------------------------------------------- what httpClient.Do yields
Statuses == {200, 404, 500}
StatusText == [s \in Statuses |->
                 IF s = 200 THEN "HTTP 200" ELSE IF s = 404 THEN "HTTP 404" ELSE "HTTP 500"]

\* a body either decodes into an APIResponse or does not
Bodies == {[valid |-> TRUE, api |-> a] : a \in APIResponses}
          \cup {[valid |-> FALSE, api |-> NoAPI]}
NoBody == [valid |-> FALSE, api |-> NoAPI]

\* ctx.Err() of a context that is done.  A call reads it at most once (every
\* path that reads it returns), so which of the two it is gets chosen at
\* the read.
CtxErrs == {Canceled, DeadlineExceeded}

\* Results of httpClient.Do for a request in flight, done telling whether
\* the call's context is done by then: a transport error, the client's own
\* Timeout (which matches context.DeadlineExceeded), the context's error
\* once the context is done, or a response.  A response that is ready can
\* still win the race with a context that has just become done.
TransportErrs(done) ==
    {{"network"}, {"Client.Timeout", DeadlineExceeded}}
    \cup (IF done THEN {{e} : e \in CtxErrs} ELSE {})
TransportResults(done) ==
    {[kind |-> "err", err |-> e, status |-> 0, body |-> NoBody] : e \in TransportErrs(done)}
    \cup {[kind |-> "resp", err |-> Nil, status |-> s, body |-> b] :
             s \in Statuses, b \in Bodies}

\* mutant: the request is written whatever the state of the context
RequestSentAlways(done) == TRUE

\* net/http's transport returns the context's error without writing the
\* request when the context is already done as the round trip starts
RequestSent(done) == ~done
RefusedResults == {[kind |-> "err", err |-> {e}, status |-> 0, body |-> NoBody] : e \in CtxErrs}

\* httpResp.StatusCode < 200 || httpResp.StatusCode >= 300
IsErrorStatus(s) == s < 200 \/ s >= 300

\* doSearchRequest / doSearchJSONRequest, from the result of httpClient.Do to
\* the (resp, err) pair they return
doSearchRequest(tr) ==
    IF tr.kind = "err"
    THEN [resp |-> NoResponse, err |-> WrapText("HTTP request failed", tr.err)]
    ELSE IF IsErrorStatus(tr.status)
    THEN [resp |-> NoResponse, err |-> {StatusText[tr.status]}]
    ELSE IF ~tr.body.valid
    THEN [resp |-> NoResponse, err |-> Wrap(ErrInvalidResponse, {"json decode"})]
    ELSE [resp |-> toSearchResponse(tr.body.api), err |-> Nil]

\* ------------------------------------------------------------------- state
VARIABLES
    now,          \* time.Now(), in ticks since the limiter was created
    tokens,       \* rateLimiter.tokens
    maxTokens,    \* rateLimiter.maxTokens
    refillRate,   \* rateLimiter.refillRate, in ticks
    lastRefill,   \* rateLimiter.lastRefill
    mu,           \* rateLimiter.mu: 0 when unlocked, else the caller holding it
    config,       \* Client.config
    call,         \* per caller: the frame of its current call
    granted,      \* number of wait calls that have returned nil so far
    tool          \* the tool call the server is handling, or the function
                  \* under examination with its argument and result

vars == <<now, tokens, maxTokens, refillRate, lastRefill, mu, config, call, granted,
          tool>>

\* Callers 1..NCallers share the limiter.  Under SpecLimiter they all call
\* wait directly and concurrently, as the package's own test does; under Spec
\* the callers in Clients go through Client.Search / Client.SearchJSON.
Clients == {1}
Ops == {"wait", "Search", "SearchJSON"}

NoReturn == [resp |-> NoResponse, err |-> Nil]

\* Frame of a caller that is not inside a call.  pc is the position in the
\* code; op the operation; done whether the call's context is done; attempt,
\* lastErr the locals of the retry loop; wakeAt the pending timer; ret the
\* returned pair.  The other fields record the call's history:
\*   waitRet     what rl.wait returned: "none" so far, "nil" or "err"
\*   calls       calls of doSearchRequest / doSearchJSONRequest
\*   sent        requests written to the network
\*   outcomes    per finished attempt "ok", "fail" or "ctx" (a failure that
\*               is a cancellation or deadline error)
\*   attemptRet  the pair the last finished attempt returned
\*   wire        the APIResponse the last successful attempt decoded
\*   sleeps      the durations passed to time.Sleep, in order
\*   suspended   rl.wait entered its select at least once
\*   done0       Search / SearchJSON was invoked with a context already done
\*   doneIdle    the context of Search / SearchJSON became done while no
\*               request of the call was in flight
\*   sentAtDone  the value of sent when the context became done
\*   arg         the SearchRequest as the caller passed it
\* req is the SearchRequest after the defaults were applied and out the
\* request built from it, which every attempt sends.
IdleFrame ==
    [pc |-> "idle", op |-> "wait", done |-> FALSE, attempt |-> 0, lastErr |-> Nil,
     wakeAt |-> 0, ret |-> NoReturn,
     arg |-> NoRequest, req |-> NoRequest, out |-> NoParams,
     waitRet |-> "none", calls |-> 0, sent |-> 0, outcomes |-> <<>>,
     attemptRet |-> NoReturn, wire |-> NoAPI, sleeps |-> <<>>,
     suspended |-> FALSE, done0 |-> FALSE, doneIdle |-> FALSE, sentAtDone |-> 0]

\* no tool call is being handled
IdleTool == [pc |-> "idle"]

\* newRateLimiter(maxTokens, refillRate) at time 0, and a client's Config
Init ==
    /\ now = 0
    /\ maxTokens \in 1..MaxCap
    /\ tokens = maxTokens
    /\ refillRate \in 1..MaxRefillRate
    /\ lastRefill = 0
    /\ mu = 0
    /\ config \in {NewClient(a) : a \in ConfigArgs}
    /\ call = [c \in Callers |-> IdleFrame]
    /\ granted = 0
    /\ tool = IdleTool

\* fixedVars: what no step of the limiter or of the client changes
limiterVars == <<tokens, lastRefill, mu, granted>>
fixedVars == <<maxTokens, refillRate, config, tool>>

SetFrame(c, f) == call' = [call EXCEPT ![c] = f]

\* return (resp, err) to the caller
Returned(f, resp, err) ==
    [f EXCEPT !.pc = "done", !.ret = [resp |-> resp, err |-> err], !.wakeAt = 0]

\* ------------------------------------------------- Search / SearchJSON loop
\* mutant: the loop stops one attempt early
LoopCondOffByOne(attempt, maxRetries) == attempt < maxRetries

\* for attempt := 0; attempt <= c.config.MaxRetries; attempt++
LoopCond(attempt, maxRetries) == attempt <= maxRetries

\* mutant: every retry waits one second
BackoffConstant(attempt) == Second

\* time.Sleep(time.Duration(attempt) * time.Second)
Backoff(attempt) == attempt * Second

\* return nil, fmt.Errorf("%w: %w", ErrRequestFailed, lastErr)
Exhausted(lastErr) == Wrap(ErrRequestFailed, lastErr)

\* mutant: the limiter's error is returned as it is
WaitFailedUnwrapped(err) == err

\* return nil, fmt.Errorf("%w: %w", ErrTimeout, err)
WaitFailed(err) == Wrap(ErrTimeout, err)

\* how an attempt ended, for the call's history
OutcomeOf(err) ==
    IF err = Nil THEN "ok" ELSE IF err \cap CtxErrs # {} THEN "ctx" ELSE "fail"

\* mutant: a retry goes through rl.wait again
ContinueReacquires(f) ==
    LET g == [f EXCEPT !.attempt = @ + 1]
    IN  IF LoopCond(g.attempt, config.MaxRetries)
        THEN [g EXCEPT !.pc = "wait_lock"]
        ELSE Returned(g, NoResponse, Exhausted(g.lastErr))

\* attempt++ and the loop condition after a failed attempt: sleep before the
\* retry, or leave the loop with the request-failed error
Continue(f) ==
    LET g == [f EXCEPT !.attempt = @ + 1]
    IN  IF LoopCond(g.attempt, config.MaxRetries)
        THEN [g EXCEPT !.pc = "backoff",
                       !.wakeAt = now + Backoff(g.attempt),
                       !.sleeps = Append(@, Backoff(g.attempt))]
        ELSE Returned(g, NoResponse, Exhausted(g.lastErr))

\* mutant: a successful attempt does not return and the loop goes on
FinishRetriesSuccess(f, tr) ==
    LET r == doSearchRequest(tr)
        g == [f EXCEPT !.lastErr = r.err, !.attemptRet = r,
                       !.outcomes = Append(@, OutcomeOf(r.err)),
                       !.wire = IF r.err = Nil THEN tr.body.api ELSE NoAPI]
    IN  IF r.err # Nil /\ IsContextError(r.err)
        THEN Returned(g, NoResponse, r.err)
        ELSE Continue(g)

\* the rest of a loop iteration once httpClient.Do has produced tr
Finish(f, tr) ==
    LET r == doSearchRequest(tr)
        g == [f EXCEPT !.lastErr = r.err, !.attemptRet = r,
                       !.outcomes = Append(@, OutcomeOf(r.err)),
                       !.wire = IF r.err = Nil THEN tr.body.api ELSE NoAPI]
    IN  IF r.err = Nil
        THEN Returned(g, r.resp, Nil)
        ELSE IF IsContextError(r.err)
        THEN Returned(g, NoResponse, r.err)
        ELSE Continue(g)

\* mutant: the request goes out whatever the state of the context
StartRequestNoRefusal(f, refused) ==
    [f EXCEPT !.calls = @ + 1, !.pc = "in_flight", !.sent = @ + 1]

\* doSearchRequest is called: the request goes out, unless the context is
\* already done, in which case Do fails at once with refused
StartRequest(f, refused) ==
    LET g == [f EXCEPT !.calls = @ + 1]
    IN  IF RequestSent(g.done)
        THEN [g EXCEPT !.pc = "in_flight", !.sent = @ + 1]
        ELSE Finish(g, refused)

\* rl.wait returned nil: the request is built (the URL, or the JSON body),
\* then var lastErr error; attempt := 0; first loop test
EnterLoop(f, refused) ==
    LET g == [f EXCEPT !.waitRet = "nil", !.attempt = 0, !.lastErr = Nil,
                       !.out = BuildRequest(f.op, f.req)]
    IN  IF LoopCond(g.attempt, config.MaxRetries)
        THEN StartRequest(g, refused)
        ELSE Returned(g, NoResponse, Exhausted(g.lastErr))

\* ------------------------------------------------------------ rate limiter
Min(a, b) == IF a < b THEN a ELSE b
Max(a, b) == IF a > b THEN a ELSE b

\* granted counts up to the most tokens a limiter can hand out within the
\* horizon of Spec and SpecLimiter, and stays there
MaxGranted == MaxCap + MaxTime

\* mutant: no mutual exclusion
CanLockAlways(c) == TRUE

\* rl.mu.Lock() proceeds only while nobody holds the mutex
CanLock(c) == mu = 0

\* mutant: one token per tick, whatever the refill interval
TokensToAddPerTick(elapsed, rate) == elapsed

\* tokensToAdd := int(elapsed / rl.refillRate)
TokensToAdd(elapsed, rate) == elapsed \div rate

\* mutant: the refill is not capped
RefilledTokensUncapped(t, add, max) == t + add

\* rl.tokens = min(rl.maxTokens, rl.tokens+tokensToAdd)
RefilledTokens(t, add, max) == Min(max, t + add)

\* rl.lastRefill = now
RefilledAt(last, add, rate, t) == t

\* if rl.tokens > 0
HasToken(t) == t > 0

\* A caller invokes wait, or Search or SearchJSON with request q, with a
\* context that is live or already done (a caller that has returned may call
\* again).  Search and SearchJSON apply the defaults to their copy of the
\* request and start with rl.wait.
Call(c, o, d, q) ==
    /\ call[c].pc \in {"idle", "done"}
    /\ SetFrame(c, [IdleFrame EXCEPT !.pc = "wait_lock", !.op = o, !.done = d,
                                     !.arg = q,
                                     !.req = IF o = "wait" THEN q ELSE ApplyDefaults(q),
                                     !.done0 = (d /\ o # "wait"),
                                     !.doneIdle = (d /\ o # "wait")])
    /\ UNCHANGED <<now, limiterVars, fixedVars>>

\* wait: rl.mu.Lock(), then under the lock read the clock, refill by the whole
\* intervals elapsed and test rl.tokens > 0
Lock(c) ==
    /\ call[c].pc = "wait_lock"
    /\ CanLock(c)
    /\ mu' = c
    /\ LET elapsed == now - lastRefill
           tokensToAdd == TokensToAdd(elapsed, refillRate)
       IN  /\ IF tokensToAdd > 0
              THEN /\ tokens' = RefilledTokens(tokens, tokensToAdd, maxTokens)
                   /\ lastRefill' = RefilledAt(lastRefill, tokensToAdd, refillRate, now)
              ELSE UNCHANGED <<tokens, lastRefill>>
           /\ SetFrame(c, [call[c] EXCEPT !.pc = IF HasToken(tokens') THEN "wait_take"
                                                 ELSE "wait_miss"])
    /\ UNCHANGED <<now, granted, fixedVars>>

\* mutant: wait looks at the context before it takes the token
TakeChecksCtx(c, refused) ==
    /\ call[c].pc = "wait_take"
    /\ mu' = 0
    /\ IF call[c].done
       THEN /\ SetFrame(c, Returned([call[c] EXCEPT !.waitRet = "err"], NoResponse,
                                    IF call[c].op = "wait" THEN refused.err
                                    ELSE WaitFailed(refused.err)))
            /\ UNCHANGED <<tokens, granted>>
       ELSE /\ tokens' = tokens - 1
            /\ granted' = granted + 1
            /\ SetFrame(c, IF call[c].op = "wait"
                           THEN Returned([call[c] EXCEPT !.waitRet = "nil"], NoResponse, Nil)
                           ELSE EnterLoop(call[c], refused))
    /\ UNCHANGED <<now, lastRefill, fixedVars>>

\* wait: rl.tokens--; rl.mu.Unlock(); return nil.  A direct caller is done;
\* Search and SearchJSON enter their retry loop.
Take(c, refused) ==
    /\ call[c].pc = "wait_take"
    /\ tokens' = tokens - 1
    /\ mu' = 0
    /\ granted' = Min(granted + 1, MaxGranted)
    /\ SetFrame(c, IF call[c].op = "wait"
                   THEN Returned([call[c] EXCEPT !.waitRet = "nil"], NoResponse, Nil)
                   ELSE EnterLoop(call[c], refused))
    /\ UNCHANGED <<now, lastRefill, fixedVars>>

\* mutant: the mutex is still held while the caller waits in the select
MissKeepsLock(c) ==
    /\ call[c].pc = "wait_miss"
    /\ SetFrame(c, [call[c] EXCEPT !.pc = "wait_select", !.wakeAt = now + refillRate,
                                   !.suspended = TRUE])
    /\ UNCHANGED <<now, tokens, lastRefill, mu, granted, fixedVars>>

\* wait: no token; rl.mu.Unlock() and enter the select with
\* time.After(rl.refillRate)
Miss(c) ==
    /\ call[c].pc = "wait_miss"
    /\ mu' = 0
    /\ SetFrame(c, [call[c] EXCEPT !.pc = "wait_select", !.wakeAt = now + refillRate,
                                   !.suspended = TRUE])
    /\ UNCHANGED <<now, tokens, lastRefill, granted, fixedVars>>

\* wait: case <-time.After(rl.refillRate): continue
SelectTimer(c) ==
    /\ call[c].pc = "wait_select"
    /\ now >= call[c].wakeAt
    /\ SetFrame(c, [call[c] EXCEPT !.pc = "wait_lock", !.wakeAt = 0])
    /\ UNCHANGED <<now, limiterVars, fixedVars>>

\* mutant: the waiter had reserved a token and does not give it back
SelectDoneKeepsToken(c, e) ==
    /\ call[c].pc = "wait_select"
    /\ call[c].done
    /\ tokens > 0
    /\ tokens' = tokens - 1
    /\ SetFrame(c, Returned([call[c] EXCEPT !.waitRet = "err"], NoResponse,
                            IF call[c].op = "wait" THEN {e} ELSE WaitFailed({e})))
    /\ UNCHANGED <<now, lastRefill, mu, granted, fixedVars>>

\* wait: case <-ctx.Done(): return ctx.Err(); Search and SearchJSON wrap it
SelectDone(c, e) ==
    /\ call[c].pc = "wait_select"
    /\ call[c].done
    /\ SetFrame(c, Returned([call[c] EXCEPT !.waitRet = "err"], NoResponse,
                            IF call[c].op = "wait" THEN {e} ELSE WaitFailed({e})))
    /\ UNCHANGED <<now, limiterVars, fixedVars>>

\* ------------------------------------------------------ retry loop actions
\* mutant: the sleep ends as soon as the context is done
WakeOnCancel(c, refused) ==
    /\ call[c].pc = "backoff"
    /\ (now >= call[c].wakeAt \/ call[c].done)
    /\ SetFrame(c, StartRequest([call[c] EXCEPT !.wakeAt = 0], refused))
    /\ UNCHANGED <<now, limiterVars, fixedVars>>

\* time.Sleep returns once the duration has elapsed, whatever the context;
\* the next attempt starts
Wake(c, refused) ==
    /\ call[c].pc = "backoff"
    /\ now >= call[c].wakeAt
    /\ SetFrame(c, StartRequest([call[c] EXCEPT !.wakeAt = 0], refused))
    /\ UNCHANGED <<now, limiterVars, fixedVars>>

\* httpClient.Do returns for the request in flight and the iteration ends
Response(c, tr) ==
    /\ call[c].pc = "in_flight"
    /\ SetFrame(c, Finish(call[c], tr))
    /\ UNCHANGED <<now, limiterVars, fixedVars>>

\* the caller cancels the call's context, or its deadline passes
CtxDone(c) ==
    /\ call[c].pc \notin {"idle", "done"}
    /\ ~call[c].done
    /\ SetFrame(c, [call[c] EXCEPT !.done = TRUE,
                                   !.doneIdle = (call[c].pc # "in_flight"
                                                 /\ call[c].op # "wait"),
                                   !.sentAtDone = call[c].sent])
    /\ UNCHANGED <<now, limiterVars, fixedVars>>

\* time passes, up to the horizon of the specification
Tick(horizon) ==
    /\ now < horizon
    /\ now' = now + 1
    /\ UNCHANGED <<limiterVars, fixedVars, call>>

\* ------------------------------------------------------------ specifications
\* the limiter shared by callers that invoke wait directly
NextLimiter ==
    \/ \E c \in Callers, d \in BOOLEAN : Call(c, "wait", d, NoRequest)
    \/ \E c \in Callers : Lock(c)
    \/ \E c \in Callers, r \in RefusedResults : Take(c, r)
    \/ \E c \in Callers : Miss(c)
    \/ \E c \in Callers : SelectTimer(c)
    \/ \E c \in Callers, e \in CtxErrs : SelectDone(c, e)
    \/ \E c \in Callers : CtxDone(c)
    \/ Tick(MaxTimeLimiter)

\* wait never reads the client's configuration: one value stands for all
InitLimiter == Init /\ config.MaxRetries = 0

SpecLimiter == InitLimiter /\ [][NextLimiter]_vars

\* Time without a horizon, for the limiter's progress.  wait compares
\* instants only by their differences (now - lastRefill, and the timer's
\* remaining time), so instead of advancing now a tick moves lastRefill and
\* the pending timers one tick into the past.  A lastRefill more than
\* maxTokens intervals old fills the bucket like one exactly that old.

\* mutant: the timers run but the refill clock stands still
TickLiveNoRefill ==
    /\ call' = [c \in Callers |->
                  [call[c] EXCEPT !.wakeAt = IF @ > now THEN @ - 1 ELSE @]]
    /\ UNCHANGED <<now, limiterVars, fixedVars>>

TickLive ==
    /\ lastRefill' = Max(lastRefill - 1, now - maxTokens * refillRate)
    /\ call' = [c \in Callers |->
                  [call[c] EXCEPT !.wakeAt = IF @ > now THEN @ - 1 ELSE @]]
    /\ UNCHANGED <<now, tokens, mu, granted, fixedVars>>

\* callers whose contexts never become done call wait again and again
NextLive ==
    \/ \E c \in Callers : Call(c, "wait", FALSE, NoRequest)
    \/ \E c \in Callers : Lock(c)
    \/ \E c \in Callers, r \in RefusedResults : Take(c, r)
    \/ \E c \in Callers : Miss(c)
    \/ \E c \in Callers : SelectTimer(c)
    \/ TickLive

\* The scheduler runs every goroutine that can run, timers fire, and
\* sync.Mutex hands the lock to a goroutine that keeps asking for it
\* (starvation mode); nothing makes a caller call.
FairLive ==
    /\ WF_vars(TickLive)
    /\ \A c \in Callers :
          /\ SF_vars(Lock(c))
          /\ WF_vars(\E r \in RefusedResults : Take(c, r))
          /\ WF_vars(Miss(c))
          /\ WF_vars(SelectTimer(c))

SpecLive == InitLimiter /\ [][NextLive]_vars /\ FairLive

\* the client: the goroutines in Clients call Search and SearchJSON, one call
\* after the other

Next ==
    \/ \E c \in Clients, o \in {"Search", "SearchJSON"}, d \in BOOLEAN :
          Call(c, o, d, ZeroRequest)
    \/ \E c \in Clients : Lock(c)
    \/ \E c \in Clients, r \in RefusedResults : Take(c, r)
    \/ \E c \in Clients : Miss(c)
    \/ \E c \in Clients : SelectTimer(c)
    \/ \E c \in Clients, e \in CtxErrs : SelectDone(c, e)
    \/ \E c \in Clients, r \in RefusedResults : Wake(c, r)
    \/ \E c \in Clients : \E tr \in TransportResults(call[c].done) : Response(c, tr)
    \/ \E c \in Clients : CtxDone(c)
    \/ Tick(MaxTime)

\* NewClient builds its limiter with fixed arguments (10 tokens, one every
\* 100ms); here it holds MaxCap tokens and refills one every tick
InitClient == Init /\ maxTokens = MaxCap /\ refillRate = 1

Spec == InitClient /\ [][Next]_vars

\* ------------------------------------------ requests and backend payloads
\* The JSON bodies the backend answers with in SpecRequest.  Each slice field
\* of a body is absent, null or an array: Absent and Null name the fields
\* that are absent or null.
WireResults ==
    {[URL |-> "u1", Title |-> "t1", Content |-> "c1",
      PublishedDate |-> <<"2024-01-15", "T", "10:30:00", "+02:00">>],
     [URL |-> "u2", Title |-> "t2", Content |-> "c2", PublishedDate |-> <<"x">>]}
ResultLists ==
    {<<>>} \cup {<<r>> : r \in WireResults}
    \cup {<<r1, r2>> : r1 \in WireResults, r2 \in WireResults}
FullBody ==
    [Query |-> "q", NumberOfResults |-> 2, Results |-> <<>>, Answers |-> <<"a1", "a2">>,
     Corrections |-> <<"c1">>, Infoboxes |-> <<"i1">>, Suggestions |-> <<"s1", "s2">>,
     UnresponsiveEngines |-> <<"e1">>, Absent |-> {}, Null |-> {}]
Without(body, fields) ==
    [k \in DOMAIN body |-> IF k \in fields THEN <<>> ELSE body[k]]
WirePayloads ==
    {[FullBody EXCEPT !.Results = rs] : rs \in ResultLists}
    \cup {[Without(FullBody, fs) EXCEPT !.Absent = fs] : fs \in SUBSET SeqFields}
    \cup {[Without(FullBody, fs) EXCEPT !.Null = fs] : fs \in SUBSET SeqFields}

\* json.NewDecoder(body).Decode(&apiResp): a slice field that is absent from
\* the body, or null in it, is left nil
jsonDecode(w) ==
    [Query |-> w.Query, NumberOfResults |-> w.NumberOfResults, Results |-> w.Results,
     Answers |-> w.Answers, Corrections |-> w.Corrections, Infoboxes |-> w.Infoboxes,
     Suggestions |-> w.Suggestions, UnresponsiveEngines |-> w.UnresponsiveEngines,
     Nulls |-> w.Absent \cup w.Null]

\* the backend answers 200 with one of the payloads, or 500
PayloadResults ==
    {[kind |-> "resp", err |-> Nil, status |-> 200,
      body |-> [valid |-> TRUE, api |-> jsonDecode(w)]] : w \in WirePayloads}
    \cup {[kind |-> "resp", err |-> Nil, status |-> 500, body |-> NoBody]}

\* One client, built as the serve command builds it, and one call of Search
\* or SearchJSON with any request of Requests
NextRequest ==
    \/ \E c \in Clients, o \in {"Search", "SearchJSON"}, q \in Requests :
          call[c].pc = "idle" /\ Call(c, o, FALSE, q)
    \/ \E c \in Clients : Lock(c)
    \/ \E c \in Clients, r \in RefusedResults : Take(c, r)
    \/ \E c \in Clients, tr \in PayloadResults : Response(c, tr)

InitRequest == InitClient /\ config = NewClient(ServeConfig)

SpecRequest == InitRequest /\ [][NextRequest]_vars

\* ------------------------------------------------------------ pure functions
\* A text is the sequence of its characters.
Chars == {"\n", " ", "a", "b"}
Texts == UNION {[1..n -> Chars] : n \in 0..MaxTextLen}
IsSpace(ch) == ch = " "

\* strings.Split(str, "\n"): the pieces between the newlines, at least one
RECURSIVE Split(_)
Split(str) ==
    IF \A i \in 1..Len(str) : str[i] # "\n" THEN <<str>>
    ELSE LET k == CHOOSE i \in 1..Len(str) :
                      str[i] = "\n" /\ \A j \in 1..(i - 1) : str[j] # "\n"
         IN  <<SubSeq(str, 1, k - 1)>> \o Split(SubSeq(str, k + 1, Len(str)))

\* strings.TrimSpace(line)
RECURSIVE TrimSpace(_)
TrimSpace(line) ==
    IF line = <<>> THEN line
    ELSE IF IsSpace(line[1]) THEN TrimSpace(Tail(line))
    ELSE IF IsSpace(line[Len(line)]) THEN TrimSpace(SubSeq(line, 1, Len(line) - 1))
    ELSE line

\* strings.Join(lines, "\n")
RECURSIVE Join(_)
Join(lines) ==
    IF lines = <<>> THEN <<>>
    ELSE IF Len(lines) = 1 THEN lines[1]
    ELSE lines[1] \o <<"\n">> \o Join(Tail(lines))

\* mutant: the comparison is turned around
KeepEmptyFromSecond(emptyCount) == emptyCount >= 2

\* mutant: every empty line is kept
KeepEmptyAlways(emptyCount) == TRUE

\* if emptyCount <= 2
KeepEmpty(emptyCount) == emptyCount <= 2

\* cleanMarkdown's first loop from line i on, with the count of empty lines
\* in the current run and the lines kept so far
RECURSIVE CleanLines(_, _, _, _)
CleanLines(lines, i, emptyCount, cleaned) ==
    IF i > Len(lines) THEN cleaned
    ELSE LET trimmed == TrimSpace(lines[i])
         IN  IF trimmed = <<>>
             THEN CleanLines(lines, i + 1, emptyCount + 1,
                             IF KeepEmpty(emptyCount + 1) THEN Append(cleaned, <<>>)
                             ELSE cleaned)
             ELSE CleanLines(lines, i + 1, 0, Append(cleaned, trimmed))

\* for len(cleaned) > 0 && cleaned[0] == "" { cleaned = cleaned[1:] }
RECURSIVE TrimLeadingEmpty(_)
TrimLeadingEmpty(cleaned) ==
    IF cleaned # <<>> /\ cleaned[1] = <<>> THEN TrimLeadingEmpty(Tail(cleaned))
    ELSE cleaned

\* for len(cleaned) > 0 && cleaned[len(cleaned)-1] == "" { ... }
RECURSIVE TrimTrailingEmpty(_)
TrimTrailingEmpty(cleaned) ==
    IF cleaned # <<>> /\ cleaned[Len(cleaned)] = <<>>
    THEN TrimTrailingEmpty(SubSeq(cleaned, 1, Len(cleaned) - 1))
    ELSE cleaned

\* cleanMarkdown
cleanMarkdown(markdown) ==
    Join(TrimTrailingEmpty(TrimLeadingEmpty(CleanLines(Split(markdown), 1, 0, <<>>))))

\* log.Init(level): the logger's output and level
LogLevels == {"debug", "info", "warn", "error", "trace", ""}
logInit(level) ==
    [Out |-> "os.Stdout",
     Level |-> IF level \in {"debug", "info", "warn", "error"} THEN level ELSE "info"]

\* what the steps of SpecPure and of the tool handlers leave alone
clientVars == <<now, limiterVars, maxTokens, refillRate, config, call>>

\* one application of a function to an argument
Apply(fn, in, out) ==
    /\ tool.pc = "idle"
    /\ tool' = [pc |-> "done", fn |-> fn, in |-> in, out |-> out]
    /\ UNCHANGED clientVars

ParseDate(str) == Apply("parsePublishedDate", str, parsePublishedDate(str))
CleanMarkdown(text) == Apply("cleanMarkdown", text, cleanMarkdown(text))
LogInit(level) == Apply("log.Init", level, logInit(level))

NextPure ==
    \/ \E str \in DateStrings : ParseDate(str)
    \/ \E text \in Texts : CleanMarkdown(text)
    \/ \E level \in LogLevels : LogInit(level)

SpecPure == InitRequest /\ [][NextPure]_vars

Applied(fn) == tool.pc = "done" /\ tool.fn = fn

\* ------------------------------------------------------------ the MCP tools
\* JSON values of the arguments of a tool call; Absent for a key the
\* arguments do not hold
Absent == [kind |-> "absent", str |-> "", num |-> 0]
Str(str) == [kind |-> "string", str |-> str, num |-> 0]
Num(n) == [kind |-> "number", str |-> "", num |-> n]

\* request.Params.Arguments: a map[string]interface{} (m its entries), or
\* anything else, such as the nil of a call that carries no arguments
EmptyMap ==
    [query |-> Absent, limit |-> Absent, time_range |-> Absent, category |-> Absent,
     page |-> Absent, url |-> Absent]
NoArguments == [isMap |-> FALSE, m |-> EmptyMap]
SearchArguments ==
    {NoArguments}
    \cup {[isMap |-> TRUE,
           m |-> [EmptyMap EXCEPT !.query = q, !.limit = l, !.time_range = t,
                                  !.category = c, !.page = p]] :
             q \in {Absent, Str(""), Str("q"), Num(123)},
             l \in {Absent, Num(3), Num(25), Str("3")},
             t \in {Absent, Str("day")},
             c \in {Absent, Str("news")},
             p \in {Absent, Num(2)}}

\* the URLs handed to web_read, and url.Parse of each
FetchURLs ==
    {[str |-> "", ok |-> TRUE, Scheme |-> ""],
     [str |-> ":invalid-url", ok |-> FALSE, Scheme |-> ""],
     [str |-> "ftp://example.com", ok |-> TRUE, Scheme |-> "ftp"],
     [str |-> "file:///etc/passwd", ok |-> TRUE, Scheme |-> "file"],
     [str |-> "example.com", ok |-> TRUE, Scheme |-> ""],
     [str |-> "http://example.com", ok |-> TRUE, Scheme |-> "http"],
     [str |-> "https://example.com", ok |-> TRUE, Scheme |-> "https"]}
urlParse(urlStr) == CHOOSE u \in FetchURLs : u.str = urlStr
ReadArguments ==
    {NoArguments}
    \cup {[isMap |-> TRUE, m |-> [EmptyMap EXCEPT !.url = v]] :
             v \in {Absent, Str(""), Num(123)} \cup {Str(u.str) : u \in FetchURLs}}

\* the context of a tool call: live, or done with its error
Contexts == {"live", "context canceled", "context deadline exceeded"}

\* mcp.NewToolResultError / mcp.NewToolResultText; a text is the sequence
\* of its parts
NewToolResultError(text) == [nil |-> FALSE, IsError |-> TRUE, Text |-> text]
NewToolResultText(text) == [nil |-> FALSE, IsError |-> FALSE, Text |-> text]
NoResult == [nil |-> TRUE, IsError |-> FALSE, Text |-> <<>>]

\* what fetchURLContent returns: the content and the error, <<>> for nil
NoFetch == [content |-> <<>>, err |-> <<>>]
FetchError(err) == [content |-> <<>>, err |-> err]
FetchContent(content) == [content |-> content, err |-> <<>>]
NoFetchResponse == [status |-> 0, contentType |-> "", body |-> <<>>, readOK |-> TRUE]

\* The tool call in progress.  pc is the position in the handler, fn the
\* tool, in the arguments, req the SearchRequest built from them, requests
\* the HTTP requests fetchURLContent's client has issued, redirects the
\* redirect responses it has received, resp the final response, fetch what
\* fetchURLContent returned and ret the handler's result and error.
ToolFrame ==
    [pc |-> "idle", fn |-> "", in |-> NoArguments, req |-> NoRequest,
     requests |-> 0, redirects |-> 0, resp |-> NoFetchResponse, fetch |-> NoFetch,
     ret |-> [result |-> NoResult, err |-> Nil]]

\* return mcp.NewToolResultError(...), nil / mcp.NewToolResultText(...), nil
ToolReturn(f, result) == [f EXCEPT !.pc = "done", !.ret = [result |-> result, err |-> Nil]]

\* mutant: an empty string passes for the required argument
RequiredAllowsEmpty(v) == v.kind = "string"

\* query, ok := args["query"].(string); ok && query != ""
Required(v) == v.kind = "string" /\ v.str # ""

\* if limit, ok := args["limit"].(float64); ok { req.Limit = int(limit) }
Float64Or(v, zero) == IF v.kind = "number" THEN v.num ELSE zero
StringOr(v, zero) == IF v.kind = "string" THEN v.str ELSE zero

\* handleWebSearch: the SearchRequest built from the arguments
BuildSearchRequest(m) ==
    [Query |-> m.query.str, Limit |-> Float64Or(m.limit, 0),
     Page |-> Float64Or(m.page, 0), TimeRange |-> StringOr(m.time_range, ""),
     Category |-> StringOr(m.category, ""), Language |-> "", Engines |-> <<>>]


\* r.PublishedDate.Format("2006-01-02"): the date in the time's own zone
FormatDate(t) == t.Date

\* mutant: an optional key is always written
OptionalAlways(key, list) == {key}

\* if len(list) > 0 { output[key] = ... }
Optional(key, list) == IF Len(list) > 0 THEN {key} ELSE {}

\* formatSearchResults: one entry of the results array, a map from its keys
ResultEntry(r) ==
    [k \in {"title", "url", "snippet"}
           \cup (IF r.PublishedDate.nil THEN {} ELSE {"published_date"}) |->
        CASE k = "title" -> r.Title
          [] k = "url" -> r.URL
          [] k = "snippet" -> r.Content
          [] OTHER -> FormatDate(r.PublishedDate.t)]

\* formatSearchResults: the output map
formatSearchResults(resp) ==
    [k \in {"query", "total_results", "results"}
           \cup Optional("suggestions", resp.Suggestions)
           \cup Optional("answers", resp.Answers)
           \cup Optional("corrections", resp.Corrections) |->
        CASE k = "query" -> resp.Query
          [] k = "total_results" -> resp.NumberOfResults
          [] k = "results" -> [i \in 1..Len(resp.Results) |-> ResultEntry(resp.Results[i])]
          [] k = "suggestions" -> resp.Suggestions
          [] k = "answers" -> resp.Answers
          [] OTHER -> resp.Corrections]

\* encoding/json writes the keys of a map in sorted order
OutputKeys ==
    <<"answers", "corrections", "query", "results", "suggestions", "total_results">>
EntryKeys == <<"published_date", "snippet", "title", "url">>
Members(obj, order) ==
    LET present == SelectSeq(order, LAMBDA k : k \in DOMAIN obj)
    IN  [i \in 1..Len(present) |-> present[i]]

\* json.MarshalIndent(formatSearchResults(resp), "", "  "): the document as
\* its sequence of members, each a key and a value, the results array as
\* the sequence of its entries' members
jsonMarshalIndent(output) ==
    LET keys == Members(output, OutputKeys)
        entry(e) == LET ks == Members(e, EntryKeys)
                    IN  [i \in 1..Len(ks) |-> [key |-> ks[i], value |-> e[ks[i]]]]
    IN  [i \in 1..Len(keys) |->
            [key |-> keys[i],
             value |-> IF keys[i] = "results"
                       THEN [n \in 1..Len(output["results"]) |->
                               entry(output["results"][n])]
                       ELSE output[keys[i]]]]

\* handleWebSearch up to the call of s.searxngClient.Search
WebSearch(args) ==
    /\ tool.pc = "idle"
    /\ LET f == [ToolFrame EXCEPT !.fn = "web_search", !.in = args]
       IN  tool' =
             IF ~args.isMap
             THEN ToolReturn(f, NewToolResultError(<<"invalid arguments format">>))
             ELSE IF ~Required(args.m.query)
             THEN ToolReturn(f, NewToolResultError(<<"query is required">>))
             ELSE [f EXCEPT !.pc = "search", !.req = BuildSearchRequest(args.m)]
    /\ UNCHANGED clientVars

\* resp, err := s.searxngClient.Search(ctx, req), with the handler's context
searxngClientSearch(c, d) ==
    /\ tool.pc = "search"
    /\ call[c].pc = "idle"
    /\ Call(c, "Search", d, tool.req)

\* mutant: a failed search is returned as the handler's error
SearchFailedAsFault(f, err) == [f EXCEPT !.pc = "done", !.ret = [result |-> NoResult, err |-> err]]

\* return mcp.NewToolResultError(fmt.Sprintf("search failed: %v", err)), nil
SearchFailed(f, err) == ToolReturn(f, NewToolResultError(<<"search failed: ", err>>))

\* handleWebSearch from the return of Search on
WebSearchReturn(c) ==
    /\ tool.pc = "search"
    /\ call[c].pc = "done"
    /\ tool' = IF call[c].ret.err # Nil
               THEN SearchFailed(tool, call[c].ret.err)
               ELSE ToolReturn(tool, NewToolResultText(
                        jsonMarshalIndent(formatSearchResults(call[c].ret.resp))))
    /\ UNCHANGED clientVars

\* --------------------------------------------------------- fetchURLContent
RedirectCap == 10

\* what the fetched server answers with at the end of the redirect chain
FetchStatuses == {200, 201, 204, 304, 404, 500}
ContentTypes ==
    {"", "text/plain", "application/json", "text/html; charset=utf-8",
     "application/xhtml+xml"}

\* A body is the sequence of its characters, a tag counting as one.
RemovedTags == {"script", "nav"}
OpenTag(tag) == IF tag = "script" THEN "<script>" ELSE IF tag = "nav" THEN "<nav>" ELSE "<p>"
CloseTag(tag) ==
    IF tag = "script" THEN "</script>" ELSE IF tag = "nav" THEN "</nav>" ELSE "</p>"
FetchBodies ==
    {<<>>, <<"a">>, <<" ", "a", " ", "\n">>,
     <<"a", "\n", "\n", "\n", "\n", "b">>,
     <<"<p>", "a", "</p>", "<p>", "b", "</p>">>,
     <<"<nav>", "b", "</nav>", "a">>,
     <<"<script>", "b", "</script>", "<p>", "a", "</p>">>}

\* doc.Find("script, style, nav, footer, header, aside").Each(Remove): body
\* from position i on without the removed elements, inside telling whether
\* position i lies in one
RECURSIVE RemoveElements(_, _, _)
RemoveElements(body, i, inside) ==
    IF i > Len(body) THEN <<>>
    ELSE IF \E tag \in RemovedTags : body[i] = OpenTag(tag)
    THEN RemoveElements(body, i + 1, TRUE)
    ELSE IF \E tag \in RemovedTags : body[i] = CloseTag(tag)
    THEN RemoveElements(body, i + 1, FALSE)
    ELSE IF inside THEN RemoveElements(body, i + 1, TRUE)
    ELSE <<body[i]>> \o RemoveElements(body, i + 1, FALSE)

\* conv.ConvertString(html): a paragraph becomes its text followed by a
\* blank line
RECURSIVE ConvertString(_)
ConvertString(html) ==
    IF html = <<>> THEN <<>>
    ELSE (IF html[1] = "<p>" THEN <<>>
          ELSE IF html[1] = "</p>" THEN <<"\n", "\n">>
          ELSE <<html[1]>>) \o ConvertString(Tail(html))

\* mutant: every response is treated as HTML
IsHTMLAlways(contentType) == TRUE

\* strings.Contains(contentType, "text/html") ||
\* strings.Contains(contentType, "application/xhtml")
IsHTML(contentType) ==
    contentType \in {"text/html; charset=utf-8", "application/xhtml+xml"}

\* mutant: every 2xx status passes
StatusOKAny2xx(status) == status >= 200 /\ status < 300

\* resp.StatusCode == http.StatusOK
StatusOK(status) == status = 200

\* mutant: the scheme is not checked
SupportedSchemeAny(scheme) == TRUE

\* parsedURL.Scheme == "http" || parsedURL.Scheme == "https"
SupportedScheme(scheme) == scheme \in {"http", "https"}

\* mutant: one redirect more is let through
CheckRedirectOneMore(via) == via > RedirectCap

\* client.CheckRedirect, via being len(via): TRUE when it returns the error
CheckRedirect(via) == via >= RedirectCap

\* fetchURLContent from the response on
HandleResponse(r) ==
    IF ~StatusOK(r.status)
    THEN FetchError(<<"HTTP ", ToString(r.status)>>)
    ELSE IF ~IsHTML(r.contentType)
    THEN IF r.readOK THEN FetchContent(r.body)
         ELSE FetchError(<<"failed to read response body: ", "read error">>)
    ELSE IF ~r.readOK THEN FetchError(<<"failed to parse HTML: ", "read error">>)
    ELSE FetchContent(cleanMarkdown(ConvertString(RemoveElements(r.body, 1, FALSE))))

\* handleWebRead from the return of fetchURLContent on
FetchReturn(f, fetch) ==
    ToolReturn([f EXCEPT !.fetch = fetch],
               IF fetch.err # <<>>
               THEN NewToolResultError(<<"failed to fetch URL: ">> \o fetch.err)
               ELSE NewToolResultText(fetch.content))

\* handleWebRead and fetchURLContent up to client.Do(req), whose first
\* request is not written when the context is already done
WebRead(args, ctx) ==
    /\ tool.pc = "idle"
    /\ LET f == [ToolFrame EXCEPT !.fn = "web_read", !.in = args]
           u == urlParse(args.m.url.str)
       IN  tool' =
             IF ~args.isMap
             THEN ToolReturn(f, NewToolResultError(<<"invalid arguments format">>))
             ELSE IF ~Required(args.m.url)
             THEN ToolReturn(f, NewToolResultError(<<"url is required">>))
             ELSE IF ~u.ok
             THEN FetchReturn(f, FetchError(<<"invalid URL: ", "parse error">>))
             ELSE IF ~SupportedScheme(u.Scheme)
             THEN FetchReturn(f, FetchError(<<"unsupported URL scheme: ", u.Scheme,
                                             " (only http and https are supported)">>))
             ELSE IF ~RequestSent(ctx # "live")
             THEN FetchReturn(f, FetchError(<<"HTTP request failed: ", ctx>>))
             ELSE [f EXCEPT !.pc = "fetching", !.requests = 1]
    /\ UNCHANGED clientVars

\* the server answers with a redirect: the client asks CheckRedirect with
\* the requests made so far and either gives up or issues the next request
FetchRedirect ==
    /\ tool.pc = "fetching"
    /\ LET f == [tool EXCEPT !.redirects = @ + 1]
       IN  tool' = IF CheckRedirect(tool.requests)
                   THEN FetchReturn(f, FetchError(<<"HTTP request failed: ",
                                                   "too many redirects">>))
                   ELSE [f EXCEPT !.requests = @ + 1]
    /\ UNCHANGED clientVars

\* client.Do fails: the network, the client's 30 s Timeout, or the context
\* becoming done while the request is in flight
FetchErrs == {"network", "Client.Timeout"} \cup (Contexts \ {"live"})
FetchFail(e) ==
    /\ tool.pc = "fetching"
    /\ tool' = FetchReturn(tool, FetchError(<<"HTTP request failed: ", e>>))
    /\ UNCHANGED clientVars

\* the server answers with a final response
FetchResponse(r) ==
    /\ tool.pc = "fetching"
    /\ tool' = FetchReturn([tool EXCEPT !.resp = r], HandleResponse(r))
    /\ UNCHANGED clientVars

FetchResponses ==
    [status : FetchStatuses, contentType : ContentTypes, body : FetchBodies,
     readOK : BOOLEAN]

\* The server built by the serve command handles one tool call.
NextServer ==
    \/ \E args \in SearchArguments : WebSearch(args)
    \/ \E c \in Clients, d \in BOOLEAN : searxngClientSearch(c, d)
    \/ \E c \in Clients : Lock(c)
    \/ \E c \in Clients, r \in RefusedResults : Take(c, r)
    \/ \E c \in Clients :
          \E tr \in TransportResults(call[c].done) \cup PayloadResults : Response(c, tr)
    \/ \E c \in Clients : CtxDone(c)
    \/ \E c \in Clients : WebSearchReturn(c)
    \/ \E args \in ReadArguments, ctx \in Contexts : WebRead(args, ctx)
    \/ FetchRedirect
    \/ \E e \in FetchErrs : FetchFail(e)
    \/ \E r \in FetchResponses : FetchResponse(r)

SpecServer == InitRequest /\ [][NextServer]_vars

Handled(fn) == tool.pc = "done" /\ tool.fn = fn

TypeOK ==
    /\ now \in 0..MaxTime
    /\ mu \in 0..NCallers
    /\ \A c \in Callers : call[c].op \in Ops /\ call[c].done \in BOOLEAN

\* ------------------------------------------------------------------ claims
SearchCall(f) == f.op \in {"Search", "SearchJSON"}
IsCancellation(err) == err \cap CtxErrs # {}
AllFail(f) == \A i \in 1..Len(f.outcomes) : f.outcomes[i] = "fail"

C2_FirstSuccessReturns ==
    \A c \in Callers :
        LET f == call[c]
            n == Len(f.outcomes)
        IN  /\ \A i \in 1..(n - 1) : f.outcomes[i] = "fail"
            /\ (n > 0 /\ f.outcomes[n] = "ok")
               => /\ f.pc = "done"
                  /\ f.ret = [resp |-> toSearchResponse(f.wire), err |-> Nil]
                  /\ f.calls = n
                  /\ Len(f.sleeps) = n - 1
                  /\ n <= config.MaxRetries + 1

C2_Witness ==
    \E c \in Callers :
        /\ call[c].op = "Search" /\ call[c].pc = "done"
        /\ call[c].outcomes = <<"fail", "ok">>
        /\ call[c].calls = 2
        /\ Len(call[c].ret.resp.Results) = 1

C4_Original ==
    \A c \in Callers :
        LET f == call[c]
        IN  (SearchCall(f) /\ f.done /\ config.MaxRetries >= 0)
            => /\ f.sent = f.sentAtDone
               /\ f.pc = "done" => IsCancellation(f.ret.err)

\* C4, amended: once the context of a Search / SearchJSON call is done, no
\* further request is sent to the backend; and if it became done while no
\* request of the call was in flight (before or during the limiter's wait,
\* or during a backoff sleep) and MaxRetries >= 0, the call returns no
\* response and a cancellation or deadline error.  (A request in flight when
\* the context becomes done may still complete with its own outcome.)
C4_CancelledCallSendsNothingMore ==
    \A c \in Callers :
        LET f == call[c]
        IN  (SearchCall(f) /\ f.done)
            => /\ f.sent = f.sentAtDone
               /\ (f.pc = "done" /\ f.doneIdle /\ config.MaxRetries >= 0)
                  => /\ f.ret.resp = NoResponse
                     /\ IsCancellation(f.ret.err)

\* the context became done during a backoff sleep and the call has returned
C4_Witness ==
    \E c \in Callers :
        /\ SearchCall(call[c]) /\ call[c].pc = "done"
        /\ call[c].done /\ call[c].doneIdle /\ ~call[c].done0
        /\ call[c].sentAtDone = 1 /\ call[c].calls = 2
        /\ config.MaxRetries = 3

\* C5: a Search / SearchJSON call invoked with a context that is already done
\* sends no request to the backend, whatever the limiter holds, and what it
\* returns is an error.
C5_CancelledBeforeCall ==
    \A c \in Callers :
        LET f == call[c]
        IN  (SearchCall(f) /\ f.done0)
            => /\ f.sent = 0
               /\ f.pc = "done" => (f.ret.resp = NoResponse /\ f.ret.err # Nil)

\* a token was available: the call got as far as doSearchRequest
C5_Witness ==
    \E c \in Callers :
        /\ call[c].op = "Search" /\ call[c].done0 /\ call[c].pc = "done"
        /\ call[c].waitRet = "nil" /\ call[c].calls = 1
        /\ config.MaxRetries = 3

\* C6: when rl.wait inside Search / SearchJSON returns the context's error,
\* the call returns no response and an error that wraps ErrTimeout around
\* it, having made no HTTP attempt.
C6_WaitCancelledIsTimeout ==
    \A c \in Callers :
        LET f == call[c]
        IN  (SearchCall(f) /\ f.waitRet = "err")
            => /\ f.pc = "done"
               /\ f.ret.resp = NoResponse
               /\ ErrTimeout \in f.ret.err
               /\ IsCancellation(f.ret.err)
               /\ f.calls = 0 /\ f.sent = 0

C6_Witness ==
    \E c \in Callers :
        /\ call[c].op = "SearchJSON" /\ call[c].waitRet = "err"
        /\ call[c].suspended /\ ~call[c].done0
        /\ call[c].ret.err = {ErrTimeout, Canceled}

\* C7: within one Search / SearchJSON call nothing is slept before the first
\* attempt, and the sleep before retry n is n seconds: the sleeps requested
\* so far are 1s, 2s, 3s, ... in that order, one per retry.
C7_LinearBackoff ==
    \A c \in Callers :
        LET f == call[c]
        IN  SearchCall(f)
            => /\ \A n \in 1..Len(f.sleeps) : f.sleeps[n] = n * Second
               /\ f.calls <= 1 /\ f.pc # "backoff" => f.sleeps = <<>>
               /\ f.pc = "backoff"
                  => /\ Len(f.sleeps) = f.calls
                     /\ f.attempt = f.calls
                     /\ f.wakeAt <= now + f.attempt * Second
               /\ f.pc # "backoff" /\ f.calls > 0 => Len(f.sleeps) = f.calls - 1

C7_Witness ==
    \E c \in Callers :
        /\ SearchCall(call[c]) /\ call[c].pc = "in_flight"
        /\ call[c].sleeps = <<Second, 2 * Second, 3 * Second>>
        /\ call[c].calls = 4

\* C8: in every reachable state of the limiter, whatever the interleaving of
\* concurrent wait calls and the passage of time, 0 <= tokens <= maxTokens.
C8_TokensInRange == 0 <= tokens /\ tokens <= maxTokens

\* a refill that had to be capped: two intervals' worth arrived with one
\* token missing
C8_Witness ==
    /\ maxTokens = 2 /\ granted = 1 /\ tokens = 2
    /\ lastRefill = 2 * refillRate

InCriticalSection(c) == call[c].pc \in {"wait_take", "wait_miss"}

\* C9: refill accounting, test and decrement of one acquire attempt are
\* indivisible: a caller is between rl.mu.Lock() and rl.mu.Unlock() exactly
\* when it holds the mutex, so at most one caller is; and while no refill
\* has happened, the tokens handed out and the tokens left add up to the
\* capacity, no token is handed out twice, and a caller has found the bucket
\* empty only after exactly maxTokens callers succeeded.
C9_AcquireIsAtomic ==
    /\ \A c \in Callers : InCriticalSection(c) <=> mu = c
    /\ lastRefill = 0
       => /\ tokens >= 0
          /\ tokens + granted = maxTokens
          /\ \A c \in Callers :
                call[c].suspended => (tokens = 0 /\ granted = maxTokens)

\* one token, two callers, no refill: one caller got it, the other waits
C9_Witness ==
    /\ maxTokens = 1 /\ lastRefill = 0 /\ granted = 1
    /\ \E c, d \in Callers :
          /\ call[c].pc = "done" /\ call[c].waitRet = "nil" /\ ~call[c].suspended
          /\ call[d].pc = "wait_select"

\* C10: on a limiter of capacity C, no wait call suspends before C calls have
\* succeeded, and more than C calls have succeeded only once at least one
\* refill interval has passed since the limiter was created.
C10_BurstThenWait ==
    /\ \A c \in Callers : call[c].suspended => granted >= maxTokens
    /\ granted > maxTokens => now >= refillRate

\* acquisition C+1 has returned, after suspending
C10_Witness ==
    /\ granted = maxTokens + 1
    /\ maxTokens = 2
    /\ \E c \in Callers :
          call[c].pc = "done" /\ call[c].waitRet = "nil" /\ call[c].suspended

\* C11 as stated: an acquire attempt that adds n = floor(e / refillRate) > 0
\* tokens moves lastRefill forward by exactly n refill intervals, so that the
\* remainder of e counts toward the next refill.
C11_RefillAdvancesByWholeIntervals ==
    [][\A c \in Callers :
          (call[c].pc = "wait_lock" /\ call'[c].pc # "wait_lock")
          => LET n == (now - lastRefill) \div refillRate
             IN  /\ tokens' = Min(maxTokens, tokens + n)
                 /\ n > 0 => lastRefill' = lastRefill + n * refillRate
                 /\ n = 0 => lastRefill' = lastRefill]_vars

\* C12: the step by which a wait call returns the context's error changes
\* neither the token count, nor the refill time, nor the mutex, nor the
\* number of acquisitions granted, nor any other caller's call; and that
\* call holds nothing: it is outside the critical section.
C12_CancelledWaitTakesNoToken ==
    [][\A c \in Callers :
          (call[c].waitRet = "none" /\ call'[c].waitRet = "err")
          => /\ tokens' = tokens
             /\ lastRefill' = lastRefill
             /\ mu' = mu /\ mu # c
             /\ granted' = granted
             /\ \A d \in Callers \ {c} : call'[d] = call[d]]_vars

\* a waiter was cancelled while tokens were there to lose, and another caller,
\* suspended too, was granted a token
C12_Witness ==
    \E c, d \in Callers :
        /\ call[c].pc = "done" /\ call[c].waitRet = "err" /\ call[c].suspended
        /\ call[d].pc = "done" /\ call[d].waitRet = "nil" /\ call[d].suspended
        /\ tokens > 0

Succeeded(f) == SearchCall(f) /\ f.pc = "done" /\ f.ret.err = Nil

\* C13: for every Limit L passed to Search or SearchJSON the limit in effect
\* is 5 when L <= 0, 20 when L > 20 and L otherwise, so it lies in 1..20; and
\* the call is not turned down for its L: it goes on to the rate limiter and
\* sends its request.
C13_LimitClamped ==
    \A c \in Callers :
        LET f == call[c]
            L == f.arg.Limit
        IN  (SearchCall(f) /\ f.pc # "idle")
            => /\ L <= 0 => f.req.Limit = 5
               /\ L > 20 => f.req.Limit = 20
               /\ L \in 1..20 => f.req.Limit = L
               /\ f.req.Limit \in 1..20
               /\ f.pc = "done" => (f.waitRet = "nil" /\ f.sent = 1)

C13_Witness ==
    \E c \in Callers :
        /\ Succeeded(call[c]) /\ call[c].op = "Search"
        /\ call[c].arg.Limit > 20 /\ call[c].req.Limit = 20

\* C14 as stated: a successful Search returns at most as many results as
\* the limit in effect, however many the backend sent.
C14_ResultsWithinLimit ==
    \A c \in Callers :
        LET f == call[c]
        IN  (Succeeded(f) /\ f.op = "Search")
            => Len(f.ret.resp.Results) <= f.req.Limit

\* C15: for every Page P passed to Search or SearchJSON the page in effect
\* is 1 when P <= 0 and P otherwise, so it is at least 1.
C15_PageClamped ==
    \A c \in Callers :
        LET f == call[c]
            P == f.arg.Page
        IN  (SearchCall(f) /\ f.pc # "idle")
            => /\ P <= 0 => f.req.Page = 1
               /\ P > 0 => f.req.Page = P
               /\ f.req.Page >= 1

C15_Witness ==
    \E c \in Callers :
        /\ Succeeded(call[c]) /\ call[c].op = "SearchJSON"
        /\ call[c].arg.Page = 0 /\ call[c].req.Page = 1

\* C16 as stated: the client the serve command builds (its Config sets only
\* the base URL and the timeout) retries 3 times: a call whose every attempt
\* failed with a non-cancellation error has made 4 attempts.
C16_ServeClientRetriesThreeTimes ==
    \A c \in Callers :
        LET f == call[c]
        IN  (/\ config = NewClient(ServeConfig)
             /\ SearchCall(f) /\ f.pc = "done" /\ f.waitRet = "nil" /\ AllFail(f))
            => f.calls = 4

\* C17 as stated: no slice of the SearchResponse a call returns is nil,
\* whatever the payload lacks.
C17_SequencesNeverNull ==
    \A c \in Callers : Succeeded(call[c]) => call[c].ret.resp.Nulls = {}

\* C18: the results of the SearchResponse a call returns are as many as the
\* results of the payload it decoded, and the i-th one carries the fields of
\* the payload's i-th result.
C18_ResultsOneToOne ==
    \A c \in Callers :
        LET f == call[c]
            in == f.wire.Results
            res == f.ret.resp.Results
        IN  Succeeded(f)
            => /\ Len(res) = Len(in)
               /\ \A i \in 1..Len(in) :
                     res[i].URL = in[i].URL /\ res[i].Title = in[i].Title

C18_Witness ==
    \E c \in Callers :
        /\ Succeeded(call[c])
        /\ Len(call[c].ret.resp.Results) = 2
        /\ call[c].ret.resp.Results[1].URL = "u2"
        /\ call[c].ret.resp.Results[2].URL = "u1"

\* C19 as stated: the JSON body SearchJSON sends for a request carries the
\* fields, with the values, of the query parameters Search sends for it.
C19_TransportsCarrySameFields ==
    \A c \in Callers :
        LET f == call[c]
        IN  (f.op = "SearchJSON" /\ f.waitRet = "nil")
            => \A k \in Params : f.out[k] = buildSearchURL(ApplyDefaults(f.arg))[k]

\* C20: the GET request of Search carries q and format=json; category,
\* language and time_range when, and only when, the request's field is not
\* empty; pageno when, and only when, the page in effect is above 1; and the
\* requested engines, one entry each, in the request's order.
C20_GetParameters ==
    \A c \in Callers :
        LET f == call[c]
            page == IF f.arg.Page <= 0 THEN 1 ELSE f.arg.Page
        IN  (f.op = "Search" /\ f.waitRet = "nil")
            => /\ f.out["q"] = <<f.arg.Query>>
               /\ f.out["format"] = <<"json">>
               /\ f.out["category"] =
                     IF f.arg.Category # "" THEN <<f.arg.Category>> ELSE <<>>
               /\ f.out["language"] =
                     IF f.arg.Language # "" THEN <<f.arg.Language>> ELSE <<>>
               /\ f.out["time_range"] =
                     IF f.arg.TimeRange # "" THEN <<f.arg.TimeRange>> ELSE <<>>
               /\ f.out["pageno"] = IF page > 1 THEN <<ToString(page)>> ELSE <<>>
               /\ f.out["engines"] = f.arg.Engines

C20_Witness ==
    \E c \in Callers :
        /\ call[c].op = "Search" /\ call[c].pc = "in_flight"
        /\ call[c].arg.Page = 2 /\ call[c].out["pageno"] = <<"2">>
        /\ call[c].arg.Category = "news" /\ call[c].arg.Language = ""
        /\ call[c].out["engines"] = <<"e2", "e1">>

\* the layouts that parse str, by their place in formats as the claim lists
\* them: timestamp with zone, timestamp with Z, date and time, date only
Accepting(str) ==
    {i \in 1..4 :
        timeParse(<<RFC3339, LayoutZ, LayoutSpace, LayoutDate>>[i], str).ok}

\* C21: parsePublishedDate returns nil exactly when its argument is empty or
\* none of the four layouts parses it, and otherwise the time the first
\* layout that parses it yields.
C21_FirstMatchingLayout ==
    Applied("parsePublishedDate")
    => LET hits == Accepting(tool.in)
           first == CHOOSE i \in hits : \A j \in hits : i <= j
       IN  /\ tool.out.nil <=> (tool.in = <<>> \/ hits = {})
           /\ hits # {}
              => tool.out.t =
                    timeParse(<<RFC3339, LayoutZ, LayoutSpace, LayoutDate>>[first],
                              tool.in).t
           /\ tool.in = <<"2024-01-15", "T", "10:30:00", "Z">>
              => tool.out = [nil |-> FALSE,
                             t |-> [Date |-> "2024-01-15", Clock |-> "10:30:00",
                                    Zone |-> "UTC"]]
           /\ tool.in = <<"x">> => tool.out.nil
           /\ tool.in = <<"2024-01-15", "T", "10:30:00">> => tool.out.nil

\* a date-only string, parsed by the last layout
C21_Witness ==
    /\ Applied("parsePublishedDate")
    /\ tool.in = <<"2024-01-15">>
    /\ tool.out = [nil |-> FALSE,
                   t |-> [Date |-> "2024-01-15", Clock |-> "00:00:00", Zone |-> "UTC"]]

\* a timestamp that carries no zone designator at all
LayoutNoZone == <<"2006-01-02", "T", "15:04:05">>

\* C21 as stated: the second accepted format is a timestamp without a
\* timezone, so the result is absent exactly when the input is empty or is
\* neither a timestamp with zone, a timestamp without zone, a date and time
\* separated by a space, nor a date.
C21_Original ==
    Applied("parsePublishedDate")
    => (tool.out.nil
        <=> (tool.in = <<>>
             \/ \A layout \in {RFC3339, LayoutNoZone, LayoutSpace, LayoutDate} :
                    ~timeParse(layout, tool.in).ok))

NonEmptyLines(lines) == SelectSeq(lines, LAMBDA l : l # <<>>)

\* C28: in the output of cleanMarkdown no line starts or ends with
\* whitespace, no three consecutive lines are empty, an output that is not
\* empty neither starts nor ends with an empty line, and the non-empty lines
\* are the input's non-blank lines, trimmed, in the input's order.
C28_CleanMarkdownShape ==
    Applied("cleanMarkdown")
    => LET out == Split(tool.out)
           in == Split(tool.in)
           kept == NonEmptyLines([i \in 1..Len(in) |-> TrimSpace(in[i])])
       IN  /\ \A i \in 1..Len(out) :
                 out[i] # <<>> => (out[i][1] # " " /\ out[i][Len(out[i])] # " ")
           /\ \A i \in 1..(Len(out) - 2) :
                 ~(out[i] = <<>> /\ out[i + 1] = <<>> /\ out[i + 2] = <<>>)
           /\ tool.out # <<>> => (out[1] # <<>> /\ out[Len(out)] # <<>>)
           /\ NonEmptyLines(out) = kept

\* four empty lines between two lines of text come out as two
C28_Witness ==
    /\ Applied("cleanMarkdown")
    /\ tool.in = <<"a", "\n", "\n", "\n", "\n", "b">>
    /\ tool.out = <<"a", "\n", "\n", "\n", "b">>

\* the required argument is missing from the arguments: absent, empty or
\* not a string
Missing(v) == v.kind # "string" \/ v.str = ""

\* the search client was not entered: no token taken, nothing sent
BackendUntouched ==
    /\ tokens = maxTokens
    /\ granted = 0
    /\ \A c \in Clients : call[c].pc = "idle" /\ call[c].sent = 0

\* C22: handleWebSearch and handleWebRead return a result and a nil error
\* whatever the arguments and the outcome; the result is flagged as an error
\* exactly when validation, the search or the fetch failed.
C22_FailuresAreToolErrors ==
    (tool.pc = "done" /\ tool.fn \in {"web_search", "web_read"})
    => /\ tool.ret.err = Nil
       /\ ~tool.ret.result.nil
       /\ tool.fn = "web_search"
          => (tool.ret.result.IsError
              <=> (~tool.in.isMap \/ Missing(tool.in.m.query)
                   \/ \E c \in Clients : call[c].ret.err # Nil))
       /\ tool.fn = "web_read"
          => (tool.ret.result.IsError
              <=> (~tool.in.isMap \/ Missing(tool.in.m.url) \/ tool.fetch.err # <<>>))

\* a search cancelled on the way comes back as an error result
C22_Witness ==
    /\ Handled("web_search")
    /\ \E c \in Clients : call[c].done /\ IsContextError(call[c].ret.err)
    /\ tool.ret.result.IsError
    /\ tool.ret.err = Nil

Contains(text, part) == \E i \in DOMAIN text : text[i] = part

\* the URL web_read was given, parsed
GivenURL == urlParse(tool.in.m.url.str)
Fetched == Handled("web_read") /\ tool.in.isMap /\ ~Missing(tool.in.m.url)

\* C24: fetchURLContent of a URL that parses and whose scheme is neither
\* http nor https fails with "unsupported URL scheme" and no request has
\* been issued.
C24_SchemeCheckedFirst ==
    (Fetched /\ GivenURL.ok /\ GivenURL.Scheme \notin {"http", "https"})
    => /\ Contains(tool.fetch.err, "unsupported URL scheme: ")
       /\ tool.requests = 0
       /\ tool.ret.result.IsError

C24_Witness ==
    /\ Fetched
    /\ tool.in.m.url.str = "ftp://example.com"
    /\ tool.fetch.err = <<"unsupported URL scheme: ", "ftp",
                          " (only http and https are supported)">>
    /\ tool.requests = 0

\* the call ended on a final response, and failed on its status
GotResponse == Fetched /\ tool.resp.status # 0
StatusFailure == tool.fetch.err = <<"HTTP ", ToString(tool.resp.status)>>

\* C25 as stated: the call fails on the status exactly when the status is
\* outside 200-299.
C25_Original ==
    GotResponse => (StatusFailure <=> (tool.resp.status < 200 \/ tool.resp.status > 299))

\* C25: the call fails on the status exactly when the status is not 200;
\* 201-299 are fatal like every other status, and only 200 proceeds to
\* content handling.
C25_OnlyStatus200Proceeds ==
    GotResponse => (StatusFailure <=> tool.resp.status # 200)

C25_Witness ==
    /\ GotResponse
    /\ tool.resp.status = 204
    /\ tool.fetch.err = <<"HTTP ", "204">>
    /\ tool.ret.result.IsError

TooManyRedirects == tool.fetch.err = <<"HTTP request failed: ", "too many redirects">>

\* C26 as stated: a chain of up to 10 redirects is followed, and the call
\* fails with too many redirects only when the chain has more than 10.
C26_Original ==
    (Fetched /\ TooManyRedirects) => tool.redirects > 10

\* C26: at most 9 redirects are followed (10 requests in all); the call
\* fails with too many redirects exactly when a tenth redirect arrives.
C26_NineRedirectsFollowed ==
    (tool.pc # "idle" /\ tool.fn = "web_read")
    => /\ tool.requests <= 10
       /\ tool.requests > 0 => tool.requests - 1 <= 9
       /\ tool.pc = "done" => (TooManyRedirects <=> tool.redirects = 10)
       /\ (tool.pc = "done" /\ ~TooManyRedirects /\ tool.requests > 0)
          => tool.requests = tool.redirects + 1

\* the tenth redirect of a chain is refused after ten requests
C26_Witness ==
    /\ Fetched
    /\ TooManyRedirects
    /\ tool.redirects = 10
    /\ tool.requests = 10

\* C27: a response with status 200 whose content type names neither
\* text/html nor application/xhtml is returned as its body, unchanged.
C27_NonHTMLReturnedRaw ==
    (GotResponse /\ tool.resp.status = 200 /\ tool.resp.readOK
     /\ tool.resp.contentType \in {"", "text/plain", "application/json"})
    => /\ tool.fetch = [content |-> tool.resp.body, err |-> <<>>]
       /\ tool.ret.result = NewToolResultText(tool.resp.body)

\* a plain text with surrounding whitespace that cleanMarkdown would trim
C27_Witness ==
    /\ GotResponse
    /\ tool.resp = [status |-> 200, contentType |-> "text/plain",
                    body |-> <<" ", "a", " ", "\n">>, readOK |-> TRUE]
    /\ tool.fetch.content = <<" ", "a", " ", "\n">>
    /\ cleanMarkdown(tool.resp.body) = <<"a">>

\* the members of a marshalled JSON object
DocKeys(doc) == {doc[i].key : i \in DOMAIN doc}
DocValue(doc, key) == doc[CHOOSE i \in DOMAIN doc : doc[i].key = key].value

\* C29: the object web_search returns has the keys suggestions, answers and
\* corrections exactly when the response's list is not empty, a results
\* array with one entry per result of the response in the same order, and
\* in an entry the key published_date exactly when the result has a date.
C29_ResultObjectShape ==
    (Handled("web_search") /\ ~tool.ret.result.IsError)
    => \A c \in Clients :
         LET resp == call[c].ret.resp
             doc == tool.ret.result.Text
             results == DocValue(doc, "results")
         IN  /\ {"query", "total_results", "results"} \subseteq DocKeys(doc)
             /\ "suggestions" \in DocKeys(doc) <=> resp.Suggestions # <<>>
             /\ "answers" \in DocKeys(doc) <=> resp.Answers # <<>>
             /\ "corrections" \in DocKeys(doc) <=> resp.Corrections # <<>>
             /\ "suggestions" \in DocKeys(doc)
                => DocValue(doc, "suggestions") = resp.Suggestions
             /\ Len(results) = Len(resp.Results)
             /\ \A i \in 1..Len(results) :
                  /\ DocValue(results[i], "url") = resp.Results[i].URL
                  /\ DocValue(results[i], "title") = resp.Results[i].Title
                  /\ "published_date" \in DocKeys(results[i])
                     <=> ~resp.Results[i].PublishedDate.nil

\* two results, the first with a date and the second without
C29_Witness ==
    /\ Handled("web_search")
    /\ ~tool.ret.result.IsError
    /\ LET results == DocValue(tool.ret.result.Text, "results")
       IN  /\ Len(results) = 2
           /\ DocValue(results[1], "url") = "u1"
           /\ DocValue(results[1], "published_date") = "2024-01-15"
           /\ DocKeys(results[2]) = {"snippet", "title", "url"}

\* C30 as stated: after log.Init, whatever the level, the logger writes to
\* standard error.
C30_LogsToStderr ==
    Applied("log.Init") => tool.out.Out = "os.Stderr"

\* C31: by time T after the limiter's creation at most
\* maxTokens + floor(T / refillRate) wait calls have returned nil, whatever
\* the number of callers and their interleaving.
C31_GrantsBounded ==
    granted <= maxTokens + (now \div refillRate)

\* the bound is met: the burst and one token per interval since
C31_Witness ==
    /\ now > 0
    /\ granted > maxTokens
    /\ granted = maxTokens + (now \div refillRate)

\* C32: the mutex is held only between rl.mu.Lock() and rl.mu.Unlock() in
\* wait: a caller suspended in wait's select, asleep in a backoff, with an
\* HTTP request in flight, or outside a call does not hold it.
C32_MutexNotHeldWhileBlocked ==
    \A c \in Callers :
        /\ call[c].pc \in {"wait_select", "backoff", "in_flight", "idle", "done"}
           => mu # c
        /\ mu = c => call[c].pc \in {"wait_take", "wait_miss"}

\* a client suspended in the select while the mutex is free
C32_Witness ==
    \E c \in Clients :
        /\ call[c].pc = "wait_select"
        /\ ~call[c].done
        /\ now < call[c].wakeAt
        /\ mu = 0

\* C39: cleanMarkdown applied to its own output returns that output.
C39_Idempotent ==
    Applied("cleanMarkdown") => cleanMarkdown(tool.out) = tool.out

\* an input that cleanMarkdown changes
C39_Witness ==
    /\ Applied("cleanMarkdown")
    /\ tool.in = <<" ", "a", "\n", "\n", "\n", "\n">>
    /\ tool.out = <<"a">>
    /\ cleanMarkdown(tool.out) = <<"a">>

\* C34: a Search call leaves its backoff sleep only once the whole sleep
\* has elapsed, cancelled or not; a call whose context became done during
\* the sleep then starts the next attempt, which sends nothing and returns
\* the context's error.
C34_SleepNotShortened ==
    [][\A c \in Clients :
          (call[c].pc = "backoff" /\ call'[c].pc # "backoff")
          => /\ now >= call[c].wakeAt
             /\ call'[c].calls = call[c].calls + 1
             /\ call[c].done
                => /\ call'[c].pc = "done"
                   /\ call'[c].sent = call[c].sent
                   /\ IsContextError(call'[c].ret.err)]_vars

\* cancelled while asleep, still asleep with part of the sleep left
C34_Witness ==
    \E c \in Clients :
        /\ call[c].pc = "backoff"
        /\ call[c].done
        /\ call[c].doneIdle
        /\ call[c].sentAtDone > 0
        /\ now > call[c].wakeAt - call[c].sleeps[Len(call[c].sleeps)]
        /\ now < call[c].wakeAt

\* C35 as stated: an attempt that received a non-2xx status fails with an
\* error of the class ErrInvalidResponse.
C35_StatusErrorIsInvalidResponse ==
    \A c \in Clients :
        (\E st \in Statuses : IsErrorStatus(st) /\ StatusText[st] \in call[c].attemptRet.err)
        => ErrInvalidResponse \in call[c].attemptRet.err

\* C36: a wait call that found a token takes it and returns nil in its next
\* step whether or not its context is done; a wait call returns the
\* context's error only after it has been suspended for want of a token.
C36_TokenBeforeCancellation ==
    [][\A c \in Callers :
          /\ (call[c].pc = "wait_take" /\ call'[c].pc # "wait_take")
             => /\ call'[c].pc = "done"
                /\ call'[c].waitRet = "nil"
                /\ call'[c].ret.err = Nil
                /\ tokens' = tokens - 1
          /\ (call[c].waitRet = "none" /\ call'[c].waitRet = "err")
             => (call[c].pc = "wait_select" /\ call[c].suspended)]_vars

\* called with a context already done, served at once
C36_Witness ==
    \E c \in Callers :
        /\ call[c].pc = "done"
        /\ call[c].done
        /\ ~call[c].suspended
        /\ call[c].waitRet = "nil"
        /\ call[c].ret.err = Nil
        /\ granted > 0

\* C37: Search and SearchJSON go through rl.wait once, before the first
\* attempt: a call inside wait has made no attempt, a call that has made an
\* attempt or sleeps before one is past wait, and every token leaves the
\* bucket in the step in which a call's wait returns nil.
C37_OneAcquisitionPerCall ==
    /\ [](\A c \in Clients :
            SearchCall(call[c])
            => /\ call[c].pc \in {"wait_lock", "wait_take", "wait_miss", "wait_select"}
                  => (call[c].waitRet = "none" /\ call[c].calls = 0
                      /\ call[c].attempt = 0)
               /\ (call[c].calls > 0 \/ call[c].pc \in {"backoff", "in_flight"})
                  => call[c].waitRet = "nil")
    /\ [][tokens' < tokens
          => /\ tokens' = tokens - 1
             /\ \E c \in Clients :
                   /\ call[c].pc = "wait_take"
                   /\ call[c].waitRet = "none"
                   /\ call'[c].waitRet = "nil"]_vars

\* three attempts for one token
C37_Witness ==
    \E c \in Clients :
        /\ SearchCall(call[c])
        /\ call[c].pc = "done"
        /\ call[c].calls = 3
        /\ call[c].sent = 3
        /\ granted = 1
        /\ tokens = maxTokens - 1

\* C38 as stated: a call that acquired a token has made at least one attempt
\* when it returns, whatever MaxRetries is.
C38_TokenMeansAttempt ==
    \A c \in Clients :
        (SearchCall(call[c]) /\ call[c].pc = "done" /\ call[c].waitRet = "nil")
        => call[c].calls >= 1

InWait(c) == call[c].pc \notin {"idle", "done"}

\* C33 as stated: every wait call whose context never becomes done returns
\* nil in the end, whatever the other callers do.
C33_Original ==
    \A c \in Callers : InWait(c) ~> (call[c].pc = "done" /\ call[c].waitRet = "nil")

\* C33: a wait call whose context never becomes done can stay in wait for
\* ever only while other callers keep taking tokens for ever; once the
\* other callers take no more tokens it returns nil.
C33_StarvedOnlyByTakers ==
    \A c \in Callers :
        <>[]InWait(c)
        => []<><<\E c2 \in Callers \ {c}, r \in RefusedResults : Take(c2, r)>>_vars

\* a caller that was suspended for want of a token and was served after
\* another caller
C33_Witness ==
    \E c \in Callers :
        /\ call[c].pc = "done"
        /\ call[c].suspended
        /\ call[c].waitRet = "nil"
        /\ granted >= 2
        /\ \E c2 \in Callers \ {c} : InWait(c2)

====
